---- MODULE Spec2Model ----
(***************************************************************************)
(* gymnasium/wrappers/jax_to_torch.py: the two singledispatch converters   *)
(* torch_to_jax / jax_to_torch and the JaxToTorch environment wrapper.     *)
(*                                                                         *)
(* Python values are records with a "tag" field:                           *)
(*   none, num (int/float/bool/complex), tensor (torch or jax), map,       *)
(*   record (namedtuple), iter (list/tuple), str, ndarray, object,         *)
(*   and raise (an exception propagating out of a call).                   *)
(***************************************************************************)
EXTENDS Integers, Sequences, FiniteSets, TLC

\* ------------------------------------------------------------- bounds ----
MaxDepth == 2      \* nesting depth of the values handed to the converters
MaxData  == 1      \* tensor elements and numbers range over 0..MaxData
MaxSteps == 2      \* steps of the wrapped environment within one episode

VARIABLES
  device,          \* JaxToTorch.device, the device hint given at construction
  arrayDispatch,   \* registration singledispatch resolves a jax array's class to
  envState,        \* state of the wrapped environment
  last,            \* the last call made on the wrapper and what it did
  cvPc, cvDir, cvArg, cvOut, cvBack   \* direct use of the two converters

vars == <<device, arrayDispatch, envState, last, cvPc, cvDir, cvArg, cvOut, cvBack>>

\* ------------------------------------------------------ python values ----
None_ == [tag |-> "none"]
Num(t, n) == [tag |-> "num", ntype |-> t, val |-> n]
Tensor(dl, nd, data, dt, dev) ==
  [tag |-> "tensor", dialect |-> dl, ndim |-> nd, data |-> data, dtype |-> dt, device |-> dev]
Map(mt, items) == [tag |-> "map", mtype |-> mt, items |-> items]
Record(rt, fields) == [tag |-> "record", rtype |-> rt, fields |-> fields]
Iter(it, elems) == [tag |-> "iter", itype |-> it, elems |-> elems]
Str(s) == [tag |-> "str", s |-> s]
NdArray(data) == [tag |-> "ndarray", data |-> data]
Object(t) == [tag |-> "object", otype |-> t]
Raise(exc, about) == [tag |-> "raise", exc |-> exc, about |-> about]

StrKey(n) == [ktype |-> "str", name |-> n]
IntKey(n) == [ktype |-> "int", name |-> n]

IsRaise(v) == v.tag = "raise"

NoDevice == "none"
Devices == {"cpu", "cuda"}
DeviceHints == {NoDevice, "cuda"}

\* type(value), as it is printed in the error messages
TypeName(v) ==
  CASE v.tag = "none"    -> "NoneType"
    [] v.tag = "num"     -> v.ntype
    [] v.tag = "tensor"  -> IF v.dialect = "torch" THEN "torch.Tensor" ELSE "jax.Array"
    [] v.tag = "map"     -> v.mtype
    [] v.tag = "record"  -> v.rtype
    [] v.tag = "iter"    -> v.itype
    [] v.tag = "str"     -> "str"
    [] v.tag = "ndarray" -> "numpy.ndarray"
    [] OTHER             -> v.otype

\* The classes of a value that a registration can match, most specific first
\* (the order functools.singledispatch walks the method resolution order).
Classes(v) ==
  CASE v.tag = "none"    -> <<"NoneType">>
    [] v.tag = "num"     -> <<"Number">>
    [] v.tag = "tensor"  -> IF v.dialect = "torch" THEN <<"torch.Tensor", "Iterable">>
                            ELSE IF arrayDispatch = "Array" THEN <<"jax.Array", "Iterable">>
                            ELSE <<"Iterable">>
    [] v.tag = "map"     -> <<"Mapping", "Iterable">>
    [] v.tag = "record"  -> <<"Iterable">>
    [] v.tag = "iter"    -> <<"Iterable">>
    [] v.tag = "str"     -> <<"Iterable">>
    [] v.tag = "ndarray" -> <<"Iterable">>
    [] OTHER             -> <<>>

\* functools.singledispatch: the first class of the value that has a
\* registration, "object" (the undecorated default) when none has.
Dispatch(v, registry) ==
  LET cs == Classes(v)
      hits == {i \in 1..Len(cs) : cs[i] \in registry}
  IN IF hits = {} THEN "object"
     ELSE cs[CHOOSE i \in hits : \A j \in hits : i <= j]

TorchToJaxRegistry == {"Number", "torch.Tensor", "Mapping", "Iterable", "NoneType"}
JaxToTorchRegistry == {"jax.Array", "Mapping", "Iterable", "NoneType"}

\* hasattr(value, "_make")
HasMake(v) == v.tag = "record"

\* the elements iterating a value yields
Elems(v) ==
  CASE v.tag = "record" -> v.fields
    [] v.tag = "iter"   -> v.elems
    [] OTHER            -> <<>>

\* The exception a sequence of lazily produced results raises first, if any.
FirstRaise(s) ==
  LET bad == {i \in 1..Len(s) : IsRaise(s[i])}
  IN s[CHOOSE i \in bad : \A j \in bad : i <= j]
AnyRaise(s) == \E i \in 1..Len(s) : IsRaise(s[i])

\* type(value)._make(generator): consumes the generator, keeps the type.
Make(value, conv) ==
  IF AnyRaise(conv) THEN FirstRaise(conv) ELSE Record(value.rtype, conv)

\* type(value)(generator): what each concrete type's constructor does with
\* a generator argument.
Construct(value, conv) ==
  CASE value.tag = "iter" ->
         IF AnyRaise(conv) THEN FirstRaise(conv) ELSE Iter(value.itype, conv)
    [] value.tag = "str" -> Str("<generator object>")
    [] value.tag = "map" -> Raise("ValueError", TypeName(value))
    [] OTHER -> Raise("TypeError", TypeName(value))

\* type(value)(**{k: converted ...}): the comprehension runs first, then the
\* keyword expansion, which only takes string keys.
ConstructKw(value, conv) ==
  IF AnyRaise(conv) THEN FirstRaise(conv)
  ELSE IF \E i \in 1..Len(value.items) : value.items[i][1].ktype # "str"
       THEN Raise("TypeError", TypeName(value))
  ELSE Map(value.mtype, [i \in 1..Len(value.items) |-> <<value.items[i][1], conv[i]>>])

RECURSIVE torch_to_jax(_), jax_to_torch(_, _)

\* ------------------------------------------------------- torch_to_jax ----
_number_torch_to_jax(value) == Tensor("jax", 0, <<value.val>>, value.ntype, "cpu")

_tensor_torch_to_jax(value) ==
  Tensor("jax", value.ndim, value.data, value.dtype, value.device)

\* the mapping rule rebuilding a plain dict whatever the mapping's type
_mapping_torch_to_jax_dict(value) ==
  ConstructKw(Map("dict", value.items),
              [i \in 1..Len(value.items) |-> torch_to_jax(value.items[i][2])])

_mapping_torch_to_jax(value) ==
  ConstructKw(value, [i \in 1..Len(value.items) |-> torch_to_jax(value.items[i][2])])

\* the iterable rule rebuilding a list whatever the container's type
_iterable_torch_to_jax_list(value) ==
  IF HasMake(value)
  THEN Make(value, [i \in 1..Len(Elems(value)) |-> torch_to_jax(Elems(value)[i])])
  ELSE Construct(IF value.tag = "iter" THEN Iter("list", value.elems) ELSE value,
                 [i \in 1..Len(Elems(value)) |-> torch_to_jax(Elems(value)[i])])

_iterable_torch_to_jax(value) ==
  IF HasMake(value)
  THEN Make(value, [i \in 1..Len(Elems(value)) |-> torch_to_jax(Elems(value)[i])])
  ELSE Construct(value, [i \in 1..Len(Elems(value)) |-> torch_to_jax(Elems(value)[i])])

_none_torch_to_jax(value) == value

torch_to_jax(value) ==
  LET f == Dispatch(value, TorchToJaxRegistry)
  IN CASE f = "Number"       -> _number_torch_to_jax(value)
       [] f = "torch.Tensor" -> _tensor_torch_to_jax(value)
       [] f = "Mapping"      -> _mapping_torch_to_jax(value)
       [] f = "Iterable"     -> _iterable_torch_to_jax(value)
       [] f = "NoneType"     -> _none_torch_to_jax(value)
       [] OTHER              -> Raise("Exception", TypeName(value))

\* ------------------------------------------------------- jax_to_torch ----
_devicearray_jax_to_torch(value, dev) ==
  LET tensor == Tensor("torch", value.ndim, value.data, value.dtype, value.device)
  IN IF dev # NoDevice THEN [tensor EXCEPT !.device = dev] ELSE tensor

_jax_mapping_to_torch(value, dev) ==
  ConstructKw(value, [i \in 1..Len(value.items) |-> jax_to_torch(value.items[i][2], dev)])

\* the iterable rule without the namedtuple branch
_jax_iterable_to_torch_noMake(value, dev) ==
  IF value.tag = "tensor" /\ value.dialect = "jax"
  THEN _devicearray_jax_to_torch(value, NoDevice)
  ELSE Construct(value, [i \in 1..Len(Elems(value)) |-> jax_to_torch(Elems(value)[i], dev)])

_jax_iterable_to_torch(value, dev) ==
  IF value.tag = "tensor" /\ value.dialect = "jax"
  THEN _devicearray_jax_to_torch(value, NoDevice)
  ELSE IF HasMake(value)
  THEN Make(value, [i \in 1..Len(Elems(value)) |-> jax_to_torch(Elems(value)[i], dev)])
  ELSE Construct(value, [i \in 1..Len(Elems(value)) |-> jax_to_torch(Elems(value)[i], dev)])

_none_jax_to_torch(value, dev) == value

jax_to_torch(value, dev) ==
  LET f == Dispatch(value, JaxToTorchRegistry)
  IN CASE f = "jax.Array" -> _devicearray_jax_to_torch(value, dev)
       [] f = "Mapping"   -> _jax_mapping_to_torch(value, dev)
       [] f = "Iterable"  -> _jax_iterable_to_torch(value, dev)
       [] f = "NoneType"  -> _none_jax_to_torch(value, dev)
       [] OTHER           -> Raise("Exception", TypeName(value))

\* ------------------------------------------------- python built-ins ----
\* bool(value): the truth value python gives a value
bool(v) ==
  CASE v.tag = "none"    -> Num("bool", 0)
    [] v.tag = "num"     -> Num("bool", IF v.val # 0 THEN 1 ELSE 0)
    [] v.tag = "tensor"  -> IF Len(v.data) = 1
                            THEN Num("bool", IF v.data[1] # 0 THEN 1 ELSE 0)
                            ELSE Raise(IF v.dialect = "torch" THEN "RuntimeError" ELSE "ValueError",
                                       TypeName(v))
    [] v.tag = "map"     -> Num("bool", IF Len(v.items) > 0 THEN 1 ELSE 0)
    [] v.tag = "record"  -> Num("bool", IF Len(v.fields) > 0 THEN 1 ELSE 0)
    [] v.tag = "iter"    -> Num("bool", IF Len(v.elems) > 0 THEN 1 ELSE 0)
    [] v.tag = "str"     -> Num("bool", IF v.s # "" THEN 1 ELSE 0)
    [] v.tag = "ndarray" -> IF Len(v.data) = 1
                            THEN Num("bool", IF v.data[1] # 0 THEN 1 ELSE 0)
                            ELSE Raise("ValueError", TypeName(v))
    [] OTHER             -> Num("bool", 1)

\* float(value)
float(v) ==
  CASE v.tag = "num" /\ v.ntype # "complex" -> Num("float", v.val)
    [] v.tag = "tensor" /\ v.ndim = 0 /\ v.dtype # "complex" -> Num("float", v.data[1])
    [] OTHER -> Raise("TypeError", TypeName(v))

\* --------------------------------------------- the wrapped environment ----
InitEnv == [t |-> 0, done |-> FALSE]

IsTrue(v) == bool(v) = Num("bool", 1)

\* self.env.step: one more step of the episode; the environment decides
\* whether the episode is over.
EnvStep(env, resp) ==
  [t |-> env.t + 1, done |-> IsTrue(resp.terminated) \/ IsTrue(resp.truncated)]

\* self.env.reset: a fresh episode
EnvReset(env) == [t |-> 0, done |-> FALSE]

EnvCall(m, arg, seed) == [m |-> m, arg |-> arg, seed |-> seed]

\* What one call of a wrapper method did: the value returned (or the
\* exception raised), the calls made on the wrapped environment, what the
\* environment returned, the sequence of calls made, the environment after.
Outcome(result, envCalls, envRet, trace, env) ==
  [result |-> result, envCalls |-> envCalls, envRet |-> envRet, trace |-> trace, env |-> env]

\* the calls evaluated in order, up to and including the first that raises
Upto(names, results) ==
  IF AnyRaise(results)
  THEN SubSeq(names, 1, CHOOSE i \in 1..Len(results) :
                          IsRaise(results[i]) /\ \A j \in 1..(i-1) : ~IsRaise(results[j]))
  ELSE names

\* ----------------------------------------------------------- JaxToTorch ----
\* step without the float() coercion of the reward
step_rawReward(action, resp, env) ==
  LET jax_action == torch_to_jax(action)
  IN IF IsRaise(jax_action)
     THEN Outcome(jax_action, <<>>, None_, <<"torch_to_jax">>, env)
     ELSE LET outs == << jax_to_torch(resp.obs, device),
                         resp.reward,
                         bool(resp.terminated),
                         bool(resp.truncated),
                         jax_to_torch(resp.info, device) >>
              names == <<"jax_to_torch", "float", "bool", "bool", "jax_to_torch">>
          IN Outcome(IF AnyRaise(outs) THEN FirstRaise(outs) ELSE Iter("tuple", outs),
                     << EnvCall("step", jax_action, None_) >>,
                     Iter("tuple", <<resp.obs, resp.reward, resp.terminated,
                                     resp.truncated, resp.info>>),
                     <<"torch_to_jax", "env.step">> \o Upto(names, outs),
                     EnvStep(env, resp))

\* step that resets the wrapped environment itself once the episode is over
step_autoReset(action, resp, env) ==
  LET jax_action == torch_to_jax(action)
  IN IF IsRaise(jax_action)
     THEN Outcome(jax_action, <<>>, None_, <<"torch_to_jax">>, env)
     ELSE LET outs == << jax_to_torch(resp.obs, device),
                         float(resp.reward),
                         bool(resp.terminated),
                         bool(resp.truncated),
                         jax_to_torch(resp.info, device) >>
              names == <<"jax_to_torch", "float", "bool", "bool", "jax_to_torch">>
              over == IsTrue(resp.terminated) \/ IsTrue(resp.truncated)
          IN Outcome(IF AnyRaise(outs) THEN FirstRaise(outs) ELSE Iter("tuple", outs),
                     IF over
                     THEN << EnvCall("step", jax_action, None_), EnvCall("reset", None_, None_) >>
                     ELSE << EnvCall("step", jax_action, None_) >>,
                     Iter("tuple", <<resp.obs, resp.reward, resp.terminated,
                                     resp.truncated, resp.info>>),
                     <<"torch_to_jax", "env.step">> \o Upto(names, outs),
                     IF over THEN EnvReset(env) ELSE EnvStep(env, resp))

step(action, resp, env) ==
  LET jax_action == torch_to_jax(action)
  IN IF IsRaise(jax_action)
     THEN Outcome(jax_action, <<>>, None_, <<"torch_to_jax">>, env)
     ELSE LET outs == << jax_to_torch(resp.obs, device),
                         float(resp.reward),
                         bool(resp.terminated),
                         bool(resp.truncated),
                         jax_to_torch(resp.info, device) >>
              names == <<"jax_to_torch", "float", "bool", "bool", "jax_to_torch">>
          IN Outcome(IF AnyRaise(outs) THEN FirstRaise(outs) ELSE Iter("tuple", outs),
                     << EnvCall("step", jax_action, None_) >>,
                     Iter("tuple", <<resp.obs, resp.reward, resp.terminated,
                                     resp.truncated, resp.info>>),
                     <<"torch_to_jax", "env.step">> \o Upto(names, outs),
                     EnvStep(env, resp))

reset(seed, options, resp, env) ==
  LET truth == bool(options)
  IN IF IsRaise(truth)
     THEN Outcome(truth, <<>>, None_, <<"bool">>, env)
     ELSE LET converted == (truth.val = 1)
              opts == IF converted THEN torch_to_jax(options) ELSE options
              pre  == IF converted THEN <<"bool", "torch_to_jax">> ELSE <<"bool">>
          IN IF IsRaise(opts)
             THEN Outcome(opts, <<>>, None_, pre, env)
             ELSE LET ret == Iter("tuple", <<resp.obs, resp.info>>)
                  IN Outcome(jax_to_torch(ret, device),
                             << EnvCall("reset", opts, seed) >>,
                             ret,
                             pre \o <<"env.reset", "jax_to_torch">>,
                             EnvReset(env))

render(resp, env) ==
  Outcome(jax_to_torch(resp, NoDevice),
          << EnvCall("render", None_, None_) >>,
          resp,
          <<"env.render", "jax_to_torch">>,
          env)

\* ------------------------------------------------ values used as input ----
Data == 0..MaxData

SrcLeaves(dl) ==
  {None_}
  \cup {Num("int", n) : n \in Data}
  \cup {Num("float", MaxData), Num("bool", 1), Num("complex", MaxData)}
  \cup {Tensor(dl, 0, <<a>>, "float", d) : a \in Data, d \in Devices}
  \cup {Tensor(dl, 1, <<0, MaxData>>, "float", d) : d \in Devices}
  \cup {Str("ab")}
  \cup {NdArray(<<0, MaxData>>)}
  \cup {Object("socket")}

Empties == {Iter("list", <<>>), Iter("tuple", <<>>), Map("dict", <<>>)}

T1(dl) == Tensor(dl, 1, <<0, MaxData>>, "float", "cpu")
T0(dl) == Tensor(dl, 0, <<MaxData>>, "float", "cpu")

\* the containers built around a value
Wrap(v, dl) ==
  { Iter("list", <<v>>),
    Iter("tuple", <<v, T1(dl)>>),
    Map("dict", <<<<StrKey("a"), v>>>>),
    Map("OrderedDict", <<<<StrKey("b"), T1(dl)>>, <<StrKey("a"), v>>>>),
    Map("dict", <<<<IntKey("1"), v>>>>),
    Record("Triple", <<v, T1(dl), None_>>),
    Record("Triple", <<T0(dl), None_, v>>) }

RECURSIVE Level(_, _)
Level(d, dl) ==
  IF d = 0 THEN SrcLeaves(dl) \cup Empties
  ELSE LET prev == Level(d - 1, dl)
       IN prev \cup UNION {Wrap(v, dl) : v \in prev}

TorchValues == Level(MaxDepth, "torch")
JaxValues == Level(MaxDepth, "jax")

False_ == Num("bool", 0)
True_  == Num("bool", 1)

\* what the caller hands to step and reset
Actions ==
  { T1("torch"),
    Tensor("torch", 0, <<MaxData>>, "float", "cuda"),
    Num("int", MaxData),
    Map("dict", <<<<StrKey("a"), T1("torch")>>>>),
    Iter("list", <<T0("torch"), None_>>),
    Record("Triple", <<T0("torch"), T1("torch"), None_>>),
    Object("socket"),
    Map("dict", <<<<StrKey("a"), Object("socket")>>>>) }

Seeds == {None_, Num("int", MaxData)}

OptionsSet ==
  { None_,
    Map("dict", <<>>),
    Map("dict", <<<<StrKey("a"), T1("torch")>>>>),
    Map("dict", <<<<StrKey("a"), Object("socket")>>>>),
    Map("dict", <<<<StrKey("n"), Num("int", 0)>>>>),
    Tensor("torch", 0, <<0>>, "float", "cpu"),
    Tensor("torch", 0, <<MaxData>>, "float", "cpu") }

\* what the wrapped environment can return
ObsSet ==
  { T1("jax"),
    Tensor("jax", 0, <<0>>, "float", "cuda"),
    Map("dict", <<<<StrKey("pos"), T1("jax")>>>>),
    Iter("tuple", <<T1("jax"), Iter("list", <<T0("jax")>>)>>),
    Record("Triple", <<T0("jax"), T1("jax"), None_>>),
    Object("socket") }

RewardSet ==
  { Num("float", MaxData), Num("int", 0), Num("bool", 1),
    Tensor("jax", 0, <<MaxData>>, "float", "cpu"),
    Tensor("jax", 1, <<0, MaxData>>, "float", "cpu") }

FlagSet ==
  { False_, True_,
    Tensor("jax", 0, <<0>>, "bool", "cpu"),
    Tensor("jax", 0, <<1>>, "bool", "cpu") }

InfoSet ==
  { Map("dict", <<>>),
    Map("dict", <<<<StrKey("t"), T0("jax")>>>>),
    Map("dict", <<<<StrKey("n"), Num("int", MaxData)>>>>),
    Map("dict", <<<<StrKey("x"), Object("socket")>>>>),
    Map("dict", <<<<StrKey("l"), Iter("list", <<T1("jax")>>)>>>>) }

BaseResp ==
  [obs |-> T1("jax"), reward |-> Num("float", MaxData), terminated |-> False_,
   truncated |-> False_, info |-> Map("dict", <<>>)]

TensorResp ==
  [obs |-> Map("dict", <<<<StrKey("pos"), T1("jax")>>>>),
   reward |-> Tensor("jax", 0, <<MaxData>>, "float", "cpu"),
   terminated |-> Tensor("jax", 0, <<1>>, "bool", "cpu"),
   truncated |-> Tensor("jax", 0, <<0>>, "bool", "cpu"),
   info |-> Map("dict", <<<<StrKey("t"), T0("jax")>>>>)]

\* the step results of the wrapped environment, one of them echoing the
\* action it was given as its observation
StepResponses(jax_action) ==
  {[BaseResp EXCEPT !.obs = o] : o \in ObsSet \cup {jax_action}}
  \cup {[BaseResp EXCEPT !.reward = r] : r \in RewardSet}
  \cup {[BaseResp EXCEPT !.terminated = f] : f \in FlagSet}
  \cup {[BaseResp EXCEPT !.truncated = f] : f \in FlagSet}
  \cup {[BaseResp EXCEPT !.info = i] : i \in InfoSet}
  \cup {TensorResp, [TensorResp EXCEPT !.obs = Object("socket")]}

ResetResponses ==
  {[obs |-> o, info |-> Map("dict", <<>>)] : o \in ObsSet}
  \cup {[obs |-> T1("jax"), info |-> i] : i \in InfoSet}

Frames ==
  { None_,
    T1("jax"),
    Tensor("jax", 1, <<0, MaxData>>, "float", "cuda"),
    NdArray(<<0, MaxData>>),
    Iter("list", <<T1("jax"), T1("jax")>>),
    Iter("list", <<NdArray(<<0, MaxData>>)>>) }

\* ---------------------------------------------------- wrapper in use ----
Call(op, arg, seed, r) ==
  [op |-> op, arg |-> arg, seed |-> seed, result |-> r.result,
   envCalls |-> r.envCalls, envRet |-> r.envRet, trace |-> r.trace]

NoCall ==
  [op |-> "init", arg |-> None_, seed |-> None_, result |-> None_,
   envCalls |-> <<>>, envRet |-> None_, trace |-> <<>>]

cvVars == <<cvPc, cvDir, cvArg, cvOut, cvBack>>

\* JaxToTorch.__init__ stores the device hint and converts nothing
Init ==
  /\ device \in DeviceHints
  /\ arrayDispatch \in {"Array", "Iterable"}
  /\ envState = InitEnv
  /\ last = NoCall
  /\ cvPc = "idle" /\ cvDir = "t2j" /\ cvArg = None_ /\ cvOut = None_ /\ cvBack = None_

Step ==
  /\ envState.t < MaxSteps
  /\ \E action \in Actions :
       \E resp \in StepResponses(torch_to_jax(action)) :
         \E r \in {step(action, resp, envState)} :
            /\ last' = Call("step", action, None_, r)
            /\ envState' = r.env
  /\ UNCHANGED <<device, arrayDispatch, cvVars>>

Reset ==
  /\ \E seed \in Seeds, options \in OptionsSet, resp \in ResetResponses :
       \E r \in {reset(seed, options, resp, envState)} :
          /\ last' = Call("reset", options, seed, r)
          /\ envState' = r.env
  /\ UNCHANGED <<device, arrayDispatch, cvVars>>

Render ==
  /\ \E frame \in Frames :
       \E r \in {render(frame, envState)} :
          /\ last' = Call("render", None_, None_, r)
          /\ envState' = r.env
  /\ UNCHANGED <<device, arrayDispatch, cvVars>>

Next == Step \/ Reset \/ Render

Spec == Init /\ [][Next]_vars

\* ------------------------------------------- the converters called directly ----
ConvInit ==
  /\ device \in DeviceHints
  /\ arrayDispatch \in {"Array", "Iterable"}
  /\ envState = InitEnv
  /\ last = NoCall
  /\ cvPc = "start"
  /\ cvDir \in {"t2j", "j2t"}
  /\ cvArg \in (IF cvDir = "t2j" THEN TorchValues ELSE JaxValues)
  /\ cvOut = None_
  /\ cvBack = None_

TorchToJaxCall ==
  /\ cvPc = "start" /\ cvDir = "t2j"
  /\ cvOut' = torch_to_jax(cvArg)
  /\ cvPc' = "converted"
  /\ UNCHANGED <<device, arrayDispatch, envState, last, cvDir, cvArg, cvBack>>

JaxToTorchCall ==
  /\ cvPc = "start" /\ cvDir = "j2t"
  /\ cvOut' = jax_to_torch(cvArg, device)
  /\ cvPc' = "converted"
  /\ UNCHANGED <<device, arrayDispatch, envState, last, cvDir, cvArg, cvBack>>

\* the result of one converter handed to the other
JaxToTorchBack ==
  /\ cvPc = "converted" /\ cvDir = "t2j" /\ ~IsRaise(cvOut)
  /\ cvBack' = jax_to_torch(cvOut, device)
  /\ cvPc' = "done"
  /\ UNCHANGED <<device, arrayDispatch, envState, last, cvDir, cvArg, cvOut>>

TorchToJaxBack ==
  /\ cvPc = "converted" /\ cvDir = "j2t" /\ ~IsRaise(cvOut)
  /\ cvBack' = torch_to_jax(cvOut)
  /\ cvPc' = "done"
  /\ UNCHANGED <<device, arrayDispatch, envState, last, cvDir, cvArg, cvOut>>

\* step on a wrapped environment that returns its action as observation
EchoStep ==
  /\ cvPc = "start" /\ cvDir = "t2j"
  /\ \E r \in {step(cvArg, [BaseResp EXCEPT !.obs = torch_to_jax(cvArg)], envState)} :
        /\ last' = Call("step", cvArg, None_, r)
        /\ envState' = r.env
  /\ cvPc' = "stepped"
  /\ UNCHANGED <<device, arrayDispatch, cvDir, cvArg, cvOut, cvBack>>

ConvNext ==
  TorchToJaxCall \/ JaxToTorchCall \/ JaxToTorchBack \/ TorchToJaxBack \/ EchoStep

ConvSpec == ConvInit /\ [][ConvNext]_vars

\* ======================================================== properties ====
\* the converter the direct call applies first
Convert(v) == IF cvDir = "t2j" THEN torch_to_jax(v) ELSE jax_to_torch(v, device)
Target == IF cvDir = "t2j" THEN "jax" ELSE "torch"
Converted == cvPc \in {"converted", "done"}

ConvertAll(s) == [i \in 1..Len(s) |-> Convert(s[i])]
Values(m) == [i \in 1..Len(m.items) |-> m.items[i][2]]
Keys(m) == [i \in 1..Len(m.items) |-> m.items[i][1]]
StringKeyed(m) == \A i \in 1..Len(m.items) : m.items[i][1].ktype = "str"

\* the number a plain number or a one-element tensor holds
ScalarOf(v) == IF v.tag = "num" THEN v.val ELSE v.data[1]

Returned(op) == last.op = op /\ ~IsRaise(last.result)

\* ---- C1 ----------------------------------------------------------------
\* C1: whenever step returns, it returns a 5-tuple whose reward is a plain
\* float and whose terminated and truncated are plain booleans holding the
\* values the wrapped environment returned, also when the environment
\* returned tensors for them; observation and info are the jax_to_torch
\* conversions (with the wrapper's device) of what the environment returned.
C1_StepScalarCoercion ==
  Returned("step") =>
    LET out == last.result.elems
        ret == last.envRet.elems
    IN /\ last.result.tag = "iter" /\ last.result.itype = "tuple" /\ Len(out) = 5
       /\ out[2] = Num("float", ScalarOf(ret[2]))
       /\ out[3] = Num("bool", IF ScalarOf(ret[3]) # 0 THEN 1 ELSE 0)
       /\ out[4] = Num("bool", IF ScalarOf(ret[4]) # 0 THEN 1 ELSE 0)
       /\ out[1] = jax_to_torch(ret[1], device)
       /\ out[5] = jax_to_torch(ret[5], device)

C1_Witness ==
  /\ Returned("step")
  /\ last.envRet.elems[2].tag = "tensor"
  /\ last.envRet.elems[3].tag = "tensor"
  /\ last.envRet.elems[4].tag = "tensor"

\* ---- C5 ----------------------------------------------------------------
\* every tensor leaf of a value lies on device d
RECURSIVE AllOn(_, _)
AllOn(v, d) ==
  CASE v.tag = "tensor" -> v.device = d
    [] v.tag = "map"    -> \A i \in 1..Len(v.items) : AllOn(v.items[i][2], d)
    [] v.tag = "record" -> \A i \in 1..Len(v.fields) : AllOn(v.fields[i], d)
    [] v.tag = "iter"   -> \A i \in 1..Len(v.elems) : AllOn(v.elems[i], d)
    [] OTHER            -> TRUE

\* C5: with a device hint d, every leaf tensor of the observation and info
\* returned by step and by reset has been moved to d, whichever dispatch
\* path converted it; the action reaches the wrapped environment converted
\* without the hint and render output is converted without it.
C5_DeviceHintApplied ==
  /\ (device # NoDevice /\ Returned("step")) =>
        /\ AllOn(last.result.elems[1], device)
        /\ AllOn(last.result.elems[5], device)
  /\ (device # NoDevice /\ Returned("reset")) => AllOn(last.result, device)
  /\ (last.op = "step" /\ Len(last.envCalls) = 1) =>
        last.envCalls[1].arg = torch_to_jax(last.arg)
  /\ last.op = "render" => last.result = jax_to_torch(last.envRet, NoDevice)

\* ---- C6 ----------------------------------------------------------------
\* C6: render returns exactly what the wrapped environment's render
\* returned, unconverted, and does not fail when that render succeeded.
C6_RenderUnconverted ==
  last.op = "render" => last.result = last.envRet

\* ---- C7 ----------------------------------------------------------------
\* C7: reset hands the wrapped environment torch_to_jax(options) whenever
\* options is not None (raising without invoking it when that conversion
\* fails), None when options is None, and the seed unchanged; it returns
\* the environment's (observation, info) as a pair in that order, each
\* component converted by jax_to_torch.
C7_ResetOptionsConverted ==
  last.op = "reset" =>
    /\ last.arg # None_ =>
         IF IsRaise(torch_to_jax(last.arg))
         THEN last.envCalls = <<>> /\ last.result = torch_to_jax(last.arg)
         ELSE Len(last.envCalls) = 1 /\ last.envCalls[1].arg = torch_to_jax(last.arg)
    /\ last.arg = None_ => Len(last.envCalls) = 1 /\ last.envCalls[1].arg = None_
    /\ \A i \in 1..Len(last.envCalls) : last.envCalls[i].seed = last.seed
    /\ ~IsRaise(last.result) =>
         last.result = Iter("tuple", << jax_to_torch(last.envRet.elems[1], device),
                                        jax_to_torch(last.envRet.elems[2], device) >>)

\* ---- C10 ---------------------------------------------------------------
EnvMethods == {"env.step", "env.reset", "env.render"}

C10_State ==
  /\ Len(last.envCalls) <= 1
  /\ \A i \in 1..Len(last.envCalls) : last.envCalls[i].m = last.op
  /\ \A i \in 1..Len(last.trace) :
       last.trace[i] \in EnvMethods =>
         \A j \in (i+1)..Len(last.trace) : last.trace[j] # "torch_to_jax"
  /\ last.op = "step" =>
       IF IsRaise(torch_to_jax(last.arg))
       THEN last.envCalls = <<>> /\ last.result = torch_to_jax(last.arg)
       ELSE /\ Len(last.envCalls) = 1
            /\ last.envCalls[1].arg = torch_to_jax(last.arg)
            /\ IsRaise(jax_to_torch(last.envRet.elems[1], device)) =>
                 last.result = jax_to_torch(last.envRet.elems[1], device)
  /\ (last.op = "reset" /\ IsTrue(last.arg) /\ IsRaise(torch_to_jax(last.arg))) =>
       last.envCalls = <<>> /\ last.result = torch_to_jax(last.arg)
  /\ (last.op = "reset" /\ Len(last.envCalls) = 1
        /\ IsRaise(jax_to_torch(last.envRet, device))) =>
       last.result = jax_to_torch(last.envRet, device)
  /\ (last.op = "render" /\ IsRaise(jax_to_torch(last.envRet, NoDevice))) =>
       last.result = jax_to_torch(last.envRet, NoDevice)

C10_Action ==
  /\ last'.envCalls = <<>> => envState' = envState
  /\ (last'.op = "step" /\ last'.envCalls # <<>>) => envState'.t = envState.t + 1
  /\ last'.op = "render" => envState' = envState

\* C10: every call on the wrapper invokes the wrapped environment's method
\* of the same name at most once and no other; the input is converted
\* before the environment is invoked, so a failing input conversion raises
\* with the environment not invoked and its state unchanged; an output
\* conversion failure propagates after the environment has advanced; the
\* wrapper never acts on the environment by itself when an episode is over.
C10_Delegation == [](C10_State) /\ [][C10_Action]_vars

C10_Witness ==
  /\ last.op = "step"
  /\ IsRaise(last.result)
  /\ Len(last.envCalls) = 1
  /\ envState.done
  /\ envState.t > 0

\* ---- C2 ----------------------------------------------------------------
ValuesConvert(m) == ~AnyRaise(ConvertAll(Values(m)))

\* the mapping rule's result: same concrete type, same keys in the same
\* order, every value converted
MappingPreserved(m, out) ==
  /\ out.tag = "map"
  /\ out.mtype = m.mtype
  /\ Len(out.items) = Len(m.items)
  /\ {Keys(out)[i] : i \in 1..Len(out.items)} = {Keys(m)[i] : i \in 1..Len(m.items)}
  /\ \A i \in 1..Len(m.items) :
       /\ out.items[i][1] = m.items[i][1]
       /\ out.items[i][2] = Convert(m.items[i][2])

RECURSIVE Topo(_)
Topo(v) ==
  CASE v.tag \in {"tensor", "num"} -> [tag |-> "leaf"]
    [] v.tag = "map"    -> Map(v.mtype, [i \in 1..Len(v.items) |->
                                           <<v.items[i][1], Topo(v.items[i][2])>>])
    [] v.tag = "record" -> Record(v.rtype, [i \in 1..Len(v.fields) |-> Topo(v.fields[i])])
    [] v.tag = "iter"   -> Iter(v.itype, [i \in 1..Len(v.elems) |-> Topo(v.elems[i])])
    [] OTHER            -> v

\* C3: each converter either raises or returns a value of the same topology
\* as its input; a value of no recognized shape raises the error that names
\* its type.
C3_TypeSafeClosed ==
  Converted =>
    /\ IsRaise(cvOut) \/ Topo(cvOut) = Topo(cvArg)
    /\ cvArg.tag = "object" => cvOut = Raise("Exception", TypeName(cvArg))

\* ---- C4 ----------------------------------------------------------------
\* values built from the recognized shapes only
RECURSIVE Recognized(_)
Recognized(v) ==
  CASE v.tag \in {"tensor", "num", "none"} -> TRUE
    [] v.tag = "map"    -> /\ StringKeyed(v)
                           /\ \A i \in 1..Len(v.items) : Recognized(v.items[i][2])
    [] v.tag = "record" -> \A i \in 1..Len(v.fields) : Recognized(v.fields[i])
    [] v.tag = "iter"   -> \A i \in 1..Len(v.elems) : Recognized(v.elems[i])
    [] OTHER            -> FALSE

\* C4: in both directions a plain number becomes a zero-dimensional tensor
\* of the target dialect holding it, and a value built from the recognized
\* shapes, numbers included, converts without failing.
C4_NumbersBothDirections ==
  Converted =>
    /\ cvArg.tag = "num" =>
         /\ cvOut.tag = "tensor"
         /\ cvOut.dialect = Target
         /\ cvOut.ndim = 0
         /\ cvOut.data = <<cvArg.val>>
    /\ Recognized(cvArg) => ~IsRaise(cvOut)

\* ---- C8 ----------------------------------------------------------------
\* C8: a record is rebuilt by the record rule, in both directions: same
\* record type, fields converted in the same order (the first failing field
\* raising); a string-keyed mapping is rebuilt by the mapping rule and not
\* by the generic-iterable rule.
C8_RecordAndMappingRules ==
  Converted =>
    /\ cvArg.tag = "record" =>
         LET conv == ConvertAll(cvArg.fields)
         IN IF AnyRaise(conv) THEN cvOut = FirstRaise(conv)
            ELSE cvOut = Record(cvArg.rtype, conv)
    /\ (cvArg.tag = "map" /\ StringKeyed(cvArg)) =>
         LET conv == ConvertAll(Values(cvArg))
         IN IF AnyRaise(conv) THEN cvOut = FirstRaise(conv)
            ELSE cvOut = Map(cvArg.mtype, [i \in 1..Len(conv) |-> <<Keys(cvArg)[i], conv[i]>>])

C8_Witness ==
  /\ Converted
  /\ cvDir = "j2t"
  /\ cvArg.tag = "record" /\ Len(cvArg.fields) = 3
  /\ cvArg.fields[1].tag = "record"
  /\ cvOut.tag = "record" /\ cvOut.fields[2].tag = "tensor"

\* ---- C9 ----------------------------------------------------------------
\* values built from tensors, None, string-keyed mappings, records, lists
\* and tuples
RECURSIVE RoundTripDomain(_)
RoundTripDomain(v) ==
  CASE v.tag \in {"tensor", "none"} -> TRUE
    [] v.tag = "map"    -> /\ StringKeyed(v)
                           /\ \A i \in 1..Len(v.items) : RoundTripDomain(v.items[i][2])
    [] v.tag = "record" -> \A i \in 1..Len(v.fields) : RoundTripDomain(v.fields[i])
    [] v.tag = "iter"   -> \A i \in 1..Len(v.elems) : RoundTripDomain(v.elems[i])
    [] OTHER            -> FALSE

\* a value with the placement of its tensors forgotten
RECURSIVE Abs(_)
Abs(v) ==
  CASE v.tag = "tensor" -> [v EXCEPT !.device = "any"]
    [] v.tag = "map"    -> Map(v.mtype, [i \in 1..Len(v.items) |->
                                           <<v.items[i][1], Abs(v.items[i][2])>>])
    [] v.tag = "record" -> Record(v.rtype, [i \in 1..Len(v.fields) |-> Abs(v.fields[i])])
    [] v.tag = "iter"   -> Iter(v.itype, [i \in 1..Len(v.elems) |-> Abs(v.elems[i])])
    [] OTHER            -> v

\* C9: converting a value of the round-trip domain and converting the
\* result back gives the value again (containers, keys, field order, leaf
\* values; tensor placement aside), in both orders of composition, and step
\* on an environment that echoes its action returns that action as the
\* observation.
C9_RoundTrip ==
  RoundTripDomain(cvArg) =>
    /\ cvPc = "converted" => ~IsRaise(cvOut)
    /\ cvPc = "done" => /\ ~IsRaise(cvBack)
                        /\ Abs(cvBack) = Abs(cvArg)
                        /\ device = NoDevice => cvBack = cvArg
    /\ cvPc = "stepped" => /\ ~IsRaise(last.result)
                           /\ Abs(last.result.elems[1]) = Abs(cvArg)

C9_Witness ==
  /\ cvPc = "done"
  /\ cvDir = "j2t"
  /\ device # NoDevice
  /\ cvArg.tag = "map" /\ Len(cvArg.items) = 2
  /\ cvArg.items[2][2].tag = "iter" /\ cvArg.items[2][2].itype = "tuple"
  /\ RoundTripDomain(cvArg)

====
